---- MODULE Spec2Model ----
(***************************************************************************)
(* A model of the asynchronous DHCPv4 client and server of                 *)
(* src/src/asynch/dhcp.rs.                                                 *)
(*                                                                         *)
(* Addresses are the u32 value of an Ipv4Addr and MACs are small naturals. *)
(* Time is the embassy Instant, counted in whole seconds.  An Option<T> is *)
(* the empty set (None) or a singleton (Some(x)).  The bounded lease table *)
(* heapless::LinearMap<Ipv4Addr, Lease, N> is the sequence of its entries  *)
(* in storage order, which is the order its iter() visits.                 *)
(*                                                                         *)
(* Pools are configured well below 255.255.255.255, so `end + 1` of        *)
(* Server::available does not leave the u32 range.  A scratch buffer is    *)
(* known by what Packet::encode can write into it: the server's by whether *)
(* the replies fit, the client's by the number of options of the largest   *)
(* request frame that fits.                                                *)
(***************************************************************************)
EXTENDS Integers, Sequences, FiniteSets, TLC

\* ---------------------------------------------------------------- bounds
MaxN == 2
MaxPool == 2
NumMacs == 2
MaxTime == 3
MaxRetries == 2
NumXids == 2
MaxHeard == 2
MaxCalls == 1
MaxQueue == 2
MaxElapsed == 131072
MaxEnv == 1

VARIABLES
    conf,     \* server::Configuration the Server was built from, and N
    leases,   \* Server.leases
    run,      \* Server::run: "running", or the error it returned
    rx,       \* the datagram handle() has received and not yet processed
    out,      \* what the handle() call that has just returned did
    offered,  \* the MAC and address of the Offer, when the last reply was one
              \* and hist.track says to remember it
    now,      \* Instant::now()
    client,   \* Client: mac, retries, timeout
    cpc,      \* where the client is: "idle", "loop", "recv", "done"
    call,     \* the arguments of the running Client::send
    xid,      \* send: xid
    start,    \* send: start
    attempt,  \* send: iterations of `for _ in 0..self.retries` begun
    deadline, \* send: when the Timer::after(self.timeout) of the loop fires
    crx,      \* send: the frame receive_into has returned, not yet decoded
    sent,     \* the request frames this Client::send has sent
    heard,    \* the frames this Client::send has received
    calls,    \* client operations called
    result,   \* what the client operation returned
    c2s,      \* datagrams on their way to the server
    s2c,      \* datagrams on their way to the client
    hist      \* what the server has handled so far, for the end-to-end claims

serverVars == <<conf, leases, run, rx, out, offered>>

clientVars ==
    <<client, cpc, call, xid, start, attempt, deadline, crx, sent, heard,
      calls, result>>

netVars == <<c2s, s2c, hist>>

vars == <<serverVars, now, clientVars, netVars>>

\* ---------------------------------------------------------------- Option
None == {}

Some(x) == {x}

Unwrap(o) == CHOOSE x \in o : TRUE

Min(S) == CHOOSE x \in S : \A y \in S : x <= y

\* ---------------------------------------------------------------- packets
MACs == 1..NumMacs

OptMessageType(mt) == [code |-> "MessageType", mt |-> mt, val |-> 0]

OptServerIdentifier(a) == [code |-> "ServerIdentifier", mt |-> "", val |-> a]

OptRequestedIpAddress(a) == [code |-> "RequestedIpAddress", mt |-> "", val |-> a]

OptIpAddressLeaseTime(s) == [code |-> "IpAddressLeaseTime", mt |-> "", val |-> s]

\* options.iter().find_map(..): the first option of the given code
FindOption(options, code) ==
    LET idx == {i \in 1..Len(options) : options[i].code = code}
    IN  IF idx = {} THEN None ELSE Some(options[Min(idx)])

FindMessageType(options) ==
    LET o == FindOption(options, "MessageType")
    IN  IF o = None THEN None ELSE Some(Unwrap(o).mt)

FindServerIdentifier(options) ==
    LET o == FindOption(options, "ServerIdentifier")
    IN  IF o = None THEN None ELSE Some(Unwrap(o).val)

FindRequestedIpAddress(options) ==
    LET o == FindOption(options, "RequestedIpAddress")
    IN  IF o = None THEN None ELSE Some(Unwrap(o).val)

FindIpAddressLeaseTime(options) ==
    LET o == FindOption(options, "IpAddressLeaseTime")
    IN  IF o = None THEN None ELSE Some(Unwrap(o).val)

Packet(reply, id, secs, ciaddr, yiaddr, chaddr, options) ==
    [reply |-> reply, xid |-> id, secs |-> secs, ciaddr |-> ciaddr,
     yiaddr |-> yiaddr, chaddr |-> chaddr, options |-> options]

\* A datagram on the wire: the encoding of a packet, or bytes that
\* Packet::decode rejects.
Encoded(pkt) == [ok |-> TRUE, pkt |-> pkt]

Malformed == [ok |-> FALSE, pkt |-> Packet(FALSE, 0, 0, 0, 0, 0, <<>>)]

\* Packet::decode: Ok(packet) or Err(format error)
Decode(d) == IF d.ok THEN Some(d.pkt) ELSE None

\* ---------------------------------------------------------------- LinearMap
IndexOf(ls, addr) ==
    LET idx == {i \in 1..Len(ls) : ls[i].addr = addr}
    IN  IF idx = {} THEN 0 ELSE Min(idx)

contains_key(ls, addr) == IndexOf(ls, addr) # 0

MapGet(ls, addr) ==
    IF contains_key(ls, addr) THEN Some(ls[IndexOf(ls, addr)]) ELSE None

\* LinearMap::remove is a swap_remove: the last entry takes the freed slot.
MapRemove(ls, addr) ==
    LET i == IndexOf(ls, addr)
        n == Len(ls)
    IN  IF i = 0 THEN ls
        ELSE [j \in 1..(n - 1) |-> IF j = i THEN ls[n] ELSE ls[j]]

\* an insert that refuses a full map even when the key is present
MapInsert_FullRefusesKey(ls, addr, mac, expires) ==
    LET i == IndexOf(ls, addr)
        e == [addr |-> addr, mac |-> mac, expires |-> expires]
    IN  IF Len(ls) >= conf.cap THEN [ok |-> FALSE, leases |-> ls]
        ELSE IF i # 0 THEN [ok |-> TRUE, leases |-> [ls EXCEPT ![i] = e]]
        ELSE [ok |-> TRUE, leases |-> Append(ls, e)]

\* LinearMap::insert: replaces the value of a present key, fails when the
\* key is absent and the map holds N entries, appends otherwise.
MapInsert(ls, addr, mac, expires) ==
    LET i == IndexOf(ls, addr)
        e == [addr |-> addr, mac |-> mac, expires |-> expires]
    IN  IF i # 0 THEN [ok |-> TRUE, leases |-> [ls EXCEPT ![i] = e]]
        ELSE IF Len(ls) >= conf.cap THEN [ok |-> FALSE, leases |-> ls]
        ELSE [ok |-> TRUE, leases |-> Append(ls, e)]

\* ---------------------------------------------------------------- Server
Expired(lease, t) == t > lease.expires

\* is_available without the lower bound of the range
is_available_NoLowerBound(ls, t, mac, addr) ==
    /\ addr <= conf.range_end
    /\ LET l == MapGet(ls, addr)
       IN  IF l # None THEN Unwrap(l).mac = mac \/ Expired(Unwrap(l), t)
           ELSE TRUE

\* is_available granting another MAC's lease before its expiry has passed
is_available_IgnoresExpiry(ls, t, mac, addr) ==
    /\ addr >= conf.range_start
    /\ addr <= conf.range_end

is_available(ls, t, mac, addr) ==
    /\ addr >= conf.range_start
    /\ addr <= conf.range_end
    /\ LET l == MapGet(ls, addr)
       IN  IF l # None THEN Unwrap(l).mac = mac \/ Expired(Unwrap(l), t)
           ELSE TRUE

\* available sweeping the first entry of a full pool whether it has expired
\* or not
available_SweepAny(ls, ts) ==
    LET free == {a \in conf.range_start..conf.range_end : ~contains_key(ls, a)}
        old  == 1..Len(ls)
    IN  IF free # {} THEN [addr |-> Some(Min(free)), leases |-> ls]
        ELSE IF old # {}
        THEN [addr |-> Some(ls[Min(old)].addr),
              leases |-> MapRemove(ls, ls[Min(old)].addr)]
        ELSE [addr |-> None, leases |-> ls]

\* Server::available; ts[i] is what Instant::now() returns when the scan
\* of the table tests its i-th entry
available(ls, ts) ==
    LET free == {a \in conf.range_start..conf.range_end : ~contains_key(ls, a)}
        old  == {i \in 1..Len(ls) : Expired(ls[i], ts[i])}
    IN  IF free # {} THEN [addr |-> Some(Min(free)), leases |-> ls]
        ELSE IF old # {}
        THEN [addr |-> Some(ls[Min(old)].addr),
              leases |-> MapRemove(ls, ls[Min(old)].addr)]
        ELSE [addr |-> None, leases |-> ls]

current_lease(ls, mac) ==
    LET idx == {i \in 1..Len(ls) : ls[i].mac = mac}
    IN  IF idx = {} THEN None ELSE Some(ls[Min(idx)].addr)

remove_lease(ls, mac) ==
    LET cur == current_lease(ls, mac)
    IN  IF cur # None THEN MapRemove(ls, Unwrap(cur)) ELSE ls

\* add_lease without the removal of the lease the MAC holds
add_lease_NoRemove(ls, addr, mac, expires) ==
    MapInsert(ls, addr, mac, expires)

\* add_lease testing the capacity on the table as it was before the MAC's
\* lease is removed, so that a refused insertion still drops that lease
add_lease_RemoveThenRefuse(ls, addr, mac, expires) ==
    LET removed == remove_lease(ls, mac)
    IN  IF contains_key(removed, addr) \/ Len(ls) < conf.cap
        THEN MapInsert(removed, addr, mac, expires)
        ELSE [ok |-> FALSE, leases |-> removed]

add_lease(ls, addr, mac, expires) ==
    MapInsert(remove_lease(ls, mac), addr, mac, expires)

\* Packet::encode(buf): the frame is written when buf has room for it.
\* The room of a buffer is counted in options of the frame, the fixed part
\* of a frame being the same for every frame.
EncodeFits(pkt, room) == Len(pkt.options) <= room

\* Server::reply_to: request.new_reply(ip, request.options.reply(mt, ..))
reply_to(request, mt, ip) ==
    Packet(TRUE, request.xid, 0, 0,
           IF ip = None THEN 0 ELSE Unwrap(ip), request.chaddr,
           <<OptMessageType(mt), OptServerIdentifier(conf.ip),
             OptIpAddressLeaseTime(conf.lease_duration)>>)

\* available() was not called / add_lease() was not called
NotCalled == [called |-> FALSE, addr |-> None, swept |-> FALSE]

Outcome(res, ls, reply, avail, inserted) ==
    [res |-> res, leases |-> ls, reply |-> reply, avail |-> avail,
     inserted |-> inserted]

\* the Discover arm preferring the MAC's existing lease to the address the
\* client asks for
HandleDiscover_LeaseFirst(ls, clk, request) ==
    LET requested_ip == FindRequestedIpAddress(request.options)
        a == current_lease(ls, request.chaddr)
        b == IF a # None THEN a
             ELSE IF requested_ip # None
                     /\ is_available(ls, clk[1], request.chaddr, Unwrap(requested_ip))
             THEN requested_ip ELSE None
        c == available(ls, Tail(clk))
    IN  IF b # None
        THEN Outcome("Ok", ls, Some(reply_to(request, "Offer", b)), NotCalled,
                     "none")
        ELSE Outcome("Ok", c.leases,
                     IF c.addr # None
                     THEN Some(reply_to(request, "Offer", c.addr)) ELSE None,
                     [called |-> TRUE, addr |-> c.addr, swept |-> c.leases # ls],
                     "none")

\* the Discover arm binding the address it offers, as the Request arm does
HandleDiscover_RecordsLease(ls, clk, request) ==
    LET requested_ip == FindRequestedIpAddress(request.options)
        a == IF requested_ip # None
                /\ is_available(ls, clk[1], request.chaddr, Unwrap(requested_ip))
             THEN requested_ip ELSE None
        b == IF a # None THEN a ELSE current_lease(ls, request.chaddr)
        c == available(ls, Tail(clk))
        ip == IF b # None THEN b ELSE c.addr
        tbl == IF b # None THEN ls ELSE c.leases
    IN  Outcome("Ok",
                IF ip = None THEN tbl
                ELSE add_lease(tbl, Unwrap(ip), request.chaddr,
                               clk[Len(clk)] + conf.lease_duration).leases,
                IF ip # None THEN Some(reply_to(request, "Offer", ip)) ELSE None,
                IF b # None THEN NotCalled
                ELSE [called |-> TRUE, addr |-> c.addr, swept |-> c.leases # ls],
                "none")

\* the Discover arm: clk[1] is read by is_available, clk[1 + i] by the scan
\* of available for the i-th entry of the table
HandleDiscover(ls, clk, request) ==
    LET requested_ip == FindRequestedIpAddress(request.options)
        a == IF requested_ip # None
                /\ is_available(ls, clk[1], request.chaddr, Unwrap(requested_ip))
             THEN requested_ip ELSE None
        b == IF a # None THEN a ELSE current_lease(ls, request.chaddr)
        c == available(ls, Tail(clk))
    IN  IF b # None
        THEN Outcome("Ok", ls, Some(reply_to(request, "Offer", b)), NotCalled,
                     "none")
        ELSE Outcome("Ok", c.leases,
                     IF c.addr # None
                     THEN Some(reply_to(request, "Offer", c.addr)) ELSE None,
                     [called |-> TRUE, addr |-> c.addr, swept |-> c.leases # ls],
                     "none")

\* the Request arm: clk[1] is read by is_available, clk[2] for the expiry
\* of the new lease
HandleRequest(ls, clk, request) ==
    LET requested_ip == FindRequestedIpAddress(request.options)
        addr == IF requested_ip # None THEN Unwrap(requested_ip)
                ELSE request.ciaddr
        ins == add_lease(ls, addr, request.chaddr,
                         clk[2] + conf.lease_duration)
    IN  IF is_available(ls, clk[1], request.chaddr, addr)
        THEN IF ins.ok
             THEN Outcome("Ok", ins.leases,
                          Some(reply_to(request, "Ack", Some(addr))), NotCalled,
                          "ok")
             ELSE Outcome("Ok", ins.leases,
                          Some(reply_to(request, "Nak", None)), NotCalled,
                          "failed")
        ELSE Outcome("Ok", ls, Some(reply_to(request, "Nak", None)), NotCalled,
                     "none")

HandleRemove(ls, request) ==
    Outcome("Ok", remove_lease(ls, request.chaddr), None, NotCalled, "none")

\* the filter letting every datagram without ServerIdentifier through
Accepts_AnyWithoutIdentifier(mt, server_identifier) ==
    \/ server_identifier = Some(conf.ip)
    \/ server_identifier = None

\* The server identifier filter of Server::handle
Accepts(mt, server_identifier) ==
    \/ server_identifier = Some(conf.ip)
    \/ server_identifier = None /\ mt = "Discover"

\* Server::handle from the decoded datagram up to the reply to send; clk
\* is what the calls of Instant::now() return, in the order of the calls
handle(ls, clk, d) ==
    LET dec == Decode(d)
        request == Unwrap(dec)
        mt == FindMessageType(request.options)
        sid == FindServerIdentifier(request.options)
        drop == Outcome("Ok", ls, None, NotCalled, "none")
    IN  IF dec = None THEN Outcome("Format", ls, None, NotCalled, "none")
        ELSE IF request.reply THEN drop
        ELSE IF mt = None THEN drop
        ELSE IF ~Accepts(Unwrap(mt), sid) THEN drop
        ELSE CASE Unwrap(mt) = "Discover" -> HandleDiscover(ls, clk, request)
               [] Unwrap(mt) = "Request" -> HandleRequest(ls, clk, request)
               [] Unwrap(mt) \in {"Decline", "Release"} -> HandleRemove(ls, request)
               [] OTHER -> drop

\* ---------------------------------------------------------------- inputs
ServerIps == {1}

\* an address of some other DHCP server
OtherServerIps == {2}

PoolStarts == {10}

\* the room of the buf handed to Server::run: none, or enough for the
\* three options of a reply
ServerRooms == {0, 3}

Configurations ==
    [ip : ServerIps, range_start : PoolStarts,
     range_end : {s - 1 + n : s \in PoolStarts, n \in 0..MaxPool},
     lease_duration : {1}, cap : 0..MaxN, room : ServerRooms]

\* addresses clients put in their datagrams: the pool, one below, one above
AddrInputs == {s - 1 + n : s \in PoolStarts, n \in 0..(MaxPool + 1)}

ReqOptions(mt, sid, rip) ==
    (IF mt = None THEN <<>> ELSE <<OptMessageType(Unwrap(mt))>>)
    \o (IF rip = None THEN <<>> ELSE <<OptRequestedIpAddress(Unwrap(rip))>>)
    \o (IF sid = None THEN <<>> ELSE <<OptServerIdentifier(Unwrap(sid))>>)

Datagram(reply, mt, sid, rip, ciaddr, mac) ==
    Encoded(Packet(reply, 0, 0, ciaddr, 0, mac, ReqOptions(mt, sid, rip)))

\* datagrams other hosts send to the server's socket
ServerInputs ==
    {Malformed}
    \cup {Datagram(FALSE, Some("Discover"), None, rip, 0, m) :
            rip \in {None} \cup {Some(a) : a \in AddrInputs}, m \in MACs}
    \cup {Datagram(FALSE, Some("Request"), Some(ip), Some(a), 0, m) :
            ip \in ServerIps, a \in AddrInputs, m \in MACs}
    \cup {Datagram(FALSE, Some("Request"), Some(ip), None, a, 1) :
            ip \in ServerIps, a \in {0} \cup PoolStarts}
    \cup {Datagram(FALSE, Some(mt), Some(ip), None, 0, m) :
            mt \in {"Decline", "Release"}, ip \in ServerIps, m \in MACs}
    \cup {Datagram(FALSE, Some(mt), None, Some(a), a, 1) :
            mt \in {"Request", "Release"}, a \in PoolStarts}
    \cup {Datagram(FALSE, Some(mt), Some(ip), Some(a), 0, 1) :
            mt \in {"Discover", "Request", "Release"}, ip \in OtherServerIps,
            a \in PoolStarts}
    \cup {Datagram(FALSE, mt, Some(ip), Some(a), 0, 1) :
            mt \in {Some("Discover"), Some("Inform"), None}, ip \in ServerIps,
            a \in PoolStarts}
    \cup {Datagram(TRUE, Some(mt), Some(ip), Some(a), 0, 1) :
            mt \in {"Discover", "Request"}, ip \in ServerIps, a \in PoolStarts}

\* ---------------------------------------------------------------- actions
\* no handle() call has just returned
NoOut ==
    [res |-> "None", req |-> None, before |-> <<>>, reply |-> None,
     sent |-> FALSE, avail |-> NotCalled, inserted |-> "none",
     prev |-> None, clock |-> <<>>, at |-> 0]

InitServer ==
    /\ conf \in Configurations
    /\ leases = <<>>
    /\ run = "running"
    /\ rx = None
    /\ out = NoOut
    /\ offered = None

\* socket.receive_into(buf) of Server::handle returns the datagram d
ServerReceive(d) ==
    /\ run = "running"
    /\ rx = None
    /\ out = NoOut
    /\ rx' = Some(d)
    /\ UNCHANGED <<conf, leases, run, out, offered, now>>

\* is_available calls Instant::now(): the address is in the range and
\* leased to another MAC (`lease.mac == *mac || Instant::now() > ..`)
IsAvailableReads(ls, mac, addr) ==
    /\ addr >= conf.range_start
    /\ addr <= conf.range_end
    /\ MapGet(ls, addr) # None
    /\ Unwrap(MapGet(ls, addr)).mac # mac

\* the entries for which the scan of available calls Instant::now(): with
\* no pool address free, every entry up to the first one found expired
ScanReads(ls, ts) ==
    IF \E a \in conf.range_start..conf.range_end : ~contains_key(ls, a)
    THEN {}
    ELSE {i \in 1..Len(ls) : \A j \in 1..(i - 1) : ~Expired(ls[j], ts[j])}

\* the calls of Instant::now() that handle makes for the datagram d, as
\* indices of clk
Reads(ls, clk, d) ==
    LET dec == Decode(d)
        request == Unwrap(dec)
        mt == FindMessageType(request.options)
        sid == FindServerIdentifier(request.options)
        requested_ip == FindRequestedIpAddress(request.options)
        addr == IF requested_ip # None THEN Unwrap(requested_ip)
                ELSE request.ciaddr
    IN  IF dec = None \/ request.reply \/ mt = None THEN {}
        ELSE IF ~Accepts(Unwrap(mt), sid) THEN {}
        ELSE IF Unwrap(mt) = "Discover"
        THEN (IF requested_ip # None
                 /\ IsAvailableReads(ls, request.chaddr, Unwrap(requested_ip))
              THEN {1} ELSE {})
             \cup
             (IF \/ /\ requested_ip # None
                     /\ is_available(ls, clk[1], request.chaddr,
                                     Unwrap(requested_ip))
                 \/ current_lease(ls, request.chaddr) # None
              THEN {}
              ELSE {1 + i : i \in ScanReads(ls, Tail(clk))})
        ELSE IF Unwrap(mt) = "Request"
        THEN (IF IsAvailableReads(ls, request.chaddr, addr) THEN {1} ELSE {})
             \cup
             (IF is_available(ls, clk[1], request.chaddr, addr)
              THEN {2} ELSE {})
        ELSE {}

\* the calls of Instant::now() one call of handle can make: one in
\* is_available, then one for each entry of the table in available, or one
\* for the expiry of the new lease
ClockReads(ls) == IF Len(ls) = 0 THEN 2 ELSE Len(ls) + 1

\* the readings that can follow the readings pre: whether handle makes its
\* next call depends on what the calls before it returned
RECURSIVE ClocksFrom(_, _, _, _)
ClocksFrom(ls, t, d, pre) ==
    IF Len(pre) = ClockReads(ls) THEN {pre}
    ELSE LET last == IF pre = <<>> THEN t ELSE pre[Len(pre)]
             rest == [k \in 1..(ClockReads(ls) - Len(pre)) |-> last]
             next == IF (Len(pre) + 1) \in Reads(ls, pre \o rest, d)
                     THEN last..MaxTime ELSE {last}
         IN  UNION {ClocksFrom(ls, t, d, Append(pre, v)) : v \in next}

\* what the calls of Instant::now() can return while handle runs on the
\* datagram d from time t on: the clock never goes back, and where handle
\* does not call it the last value is kept
Clocks(ls, t, d) == ClocksFrom(ls, t, d, <<>>)

\* Server::handle from Packet::decode up to its next await or return: the
\* datagram is decoded and filtered, its arm changes the lease table,
\* reading the clock as it runs, and builds the reply, and
\* `reply.encode(buf)?` writes it.  Without reply handle returns Ok; a
\* reply that does not fit buf makes it return the format error; otherwise
\* handle awaits socket.send ("Sending").
ServerHandle ==
    /\ run = "running"
    /\ rx # None
    /\ \E clk \in Clocks(leases, now, Unwrap(rx)) :
          LET r == handle(leases, clk, Unwrap(rx))
          IN  /\ leases' = r.leases
              /\ out' = [res |-> IF r.res # "Ok" THEN r.res
                                 ELSE IF r.reply = None THEN "Ok"
                                 ELSE IF ~EncodeFits(Unwrap(r.reply), conf.room)
                                 THEN "Format"
                                 ELSE "Sending",
                         req |-> rx, before |-> leases, reply |-> r.reply,
                         sent |-> FALSE,
                         avail |-> r.avail, inserted |-> r.inserted,
                         prev |-> offered, clock |-> clk,
                         at |-> clk[Len(clk)]]
              /\ now' = clk[Len(clk)]
    /\ rx' = None
    /\ UNCHANGED <<conf, run, offered>>

\* `socket.send(local_addr, remote_addr, data).await` of Server::handle
\* completes, with Ok or with a transport error, and handle returns
ServerSent(sendOk) ==
    /\ run = "running"
    /\ out.res = "Sending"
    /\ out' = [out EXCEPT !.res = IF sendOk THEN "Ok" ELSE "Io",
                          !.sent = sendOk]
    /\ offered' =
          IF /\ hist.track
             /\ sendOk
             /\ FindMessageType(Unwrap(out.reply).options) = Some("Offer")
          THEN Some([mac |-> Unwrap(out.reply).chaddr,
                     addr |-> Unwrap(out.reply).yiaddr])
          ELSE None
    /\ UNCHANGED <<conf, leases, run, rx, now>>

\* socket.receive_into reports a transport error: handle returns Io
ServerRecvError ==
    /\ run = "running"
    /\ rx = None
    /\ out = NoOut
    /\ out' = [NoOut EXCEPT !.res = "Io", !.before = leases]
    /\ UNCHANGED <<conf, leases, run, rx, offered, now>>

\* Server::run: `self.handle(..).await?` inside `loop`: Ok goes on to the
\* next datagram, an error is returned to the caller of run.
ServerLoop ==
    /\ run = "running"
    /\ out.res \notin {"None", "Sending"}
    /\ run' = IF out.res = "Ok" THEN "running" ELSE out.res
    /\ out' = NoOut
    /\ offered' = IF out.reply = None THEN None ELSE offered
    /\ UNCHANGED <<conf, leases, rx, now>>

Tick ==
    /\ now < MaxTime
    /\ now' = now + 1

\* the server task is suspended in receive_into or in socket.send
ServerAwaits == rx = None /\ out.res \in {"None", "Sending"}

\* time passes while the server awaits a datagram or the end of a send
ServerTick ==
    /\ Tick
    /\ ServerAwaits
    /\ UNCHANGED serverVars

\* ---------------------------------------------------------------- Client
Xids == 1..NumXids

\* Options::discover(ip, ..), ::request(our_ip, ..), ::release(..) and
\* ::decline(..) as Client calls them: the message type, and the requested
\* address where the call passes one.  No call passes the server's address,
\* so no request frame carries a ServerIdentifier.  The client identifier and
\* the parameter request list, which Server::handle never reads, are left out.
OptionsDiscover(ip) ==
    <<OptMessageType("Discover")>>
    \o (IF ip = None THEN <<>> ELSE <<OptRequestedIpAddress(Unwrap(ip))>>)

OptionsRequest(our_ip) ==
    <<OptMessageType("Request"), OptRequestedIpAddress(our_ip)>>

OptionsRelease == <<OptMessageType("Release")>>

OptionsDecline == <<OptMessageType("Decline")>>

\* Packet::new_request(mac, xid, secs, our_ip, options)
new_request(mac, id, secs, our_ip, options) ==
    Packet(FALSE, id, secs, IF our_ip = None THEN 0 ELSE Unwrap(our_ip), 0,
           mac, options)

\* `(Instant::now() - start).as_secs() as _`: a u64 cast to the u16 of secs
SecsSince(t0, t) == (t - t0) % 65536

\* Packet::parse_reply(mac, xid): Some((mt, settings)) for a reply that
\* carries this xid, this MAC and a message type
parse_reply(pkt, mac, id) ==
    LET mt == FindMessageType(pkt.options)
    IN  IF pkt.reply /\ pkt.xid = id /\ pkt.chaddr = mac /\ mt # None
        THEN Some([mt |-> Unwrap(mt),
                   settings |-> [ip |-> pkt.yiaddr,
                                 server_ip |-> FindServerIdentifier(pkt.options),
                                 lease |-> FindIpAddressLeaseTime(pkt.options)]])
        ELSE None

\* the arguments Client::discover, ::request, ::release and ::decline pass
\* to Client::send; api is the operation the caller called, op the one whose
\* send is running (discover goes on into request), room the room of buf
SendArgs(op, room, server_ip, our_ip, options, expected) ==
    [api |-> op, op |-> op, room |-> room, server_ip |-> server_ip,
     our_ip |-> our_ip, options |-> options, expected |-> expected]

discover(room, ip) ==
    SendArgs("discover", room, None, None, OptionsDiscover(ip), {"Offer"})

request(room, server_ip, our_ip) ==
    SendArgs("request", room, Some(server_ip), Some(our_ip),
             OptionsRequest(our_ip), {"Ack", "Nak"})

release(room, server_ip, our_ip) ==
    SendArgs("release", room, Some(server_ip), Some(our_ip), OptionsRelease,
             {})

decline(room, server_ip, our_ip) ==
    SendArgs("decline", room, Some(server_ip), Some(our_ip), OptionsDecline,
             {})

NoCall == SendArgs("none", 0, None, None, <<>>, {})

NoSettings == [ip |-> 0, server_ip |-> None, lease |-> None]

Returned(kind, settings) == Some([kind |-> kind, settings |-> settings])

ClientConfigurations ==
    [mac : {1}, retries : 0..MaxRetries, timeout : {1, 2}]

InitClient ==
    /\ client \in ClientConfigurations
    /\ cpc = "idle"
    /\ call = NoCall
    /\ xid = 0
    /\ start = 0
    /\ attempt = 0
    /\ deadline = 0
    /\ crx = None
    /\ sent = <<>>
    /\ heard = 0
    /\ calls = 0
    /\ result = None

\* Client::send is entered: `start = Instant::now()`, `xid = rng.next_u32()`
EnterSend(args) ==
    /\ cpc' = "loop"
    /\ call' = args
    /\ xid' \in Xids
    /\ start' = now
    /\ attempt' = 0
    /\ sent' = <<>>
    /\ heard' = 0
    /\ result' = None
    /\ UNCHANGED <<client, deadline>>

\* a client operation returns to its caller
Return(kind, settings) ==
    /\ cpc' = "done"
    /\ result' = Returned(kind, settings)
    /\ UNCHANGED <<client, call, xid, start, attempt, deadline, sent, heard,
                   calls>>

\* the caller starts discover, request, release or decline
ClientCall(args) ==
    /\ cpc \in {"idle", "done"}
    /\ calls < MaxCalls
    /\ calls' = calls + 1
    /\ EnterSend(args)
    /\ UNCHANGED crx

\* the frame one iteration of the for loop of send builds
RequestFrame ==
    new_request(client.mac, xid, SecsSince(start, now), call.our_ip,
                call.options)

\* One iteration of the for loop of send from the return of connect_from
\* to the call of socket.send: new_request with the seconds since start,
\* `request.encode(buf)?`, which returns the format error when buf has no
\* room for the frame, and the frame handed to the socket.
ClientAttempt ==
    /\ cpc = "loop"
    /\ attempt < client.retries
    /\ IF EncodeFits(RequestFrame, call.room)
       THEN /\ attempt' = attempt + 1
            /\ sent' = Append(sent, RequestFrame)
            /\ cpc' = "send"
            /\ UNCHANGED <<client, call, xid, start, deadline, heard, calls,
                           result>>
       ELSE Return("Format", NoSettings)
    /\ UNCHANGED crx

\* a completed socket.send that goes on to await a reply whatever is
\* expected
ClientSent_AwaitsReply ==
    /\ cpc = "send"
    /\ cpc' = "recv"
    /\ deadline' = now + client.timeout
    /\ UNCHANGED <<client, call, xid, start, attempt, crx, sent, heard, calls,
                   result>>

\* `socket.send(data).await` completes: with a reply expected the receive
\* loop starts its first timer; with nothing expected send returns
\* Ok(None) and release/decline return Ok(()).
ClientSent ==
    /\ cpc = "send"
    /\ IF call.expected # {}
       THEN /\ cpc' = "recv"
            /\ deadline' = now + client.timeout
            /\ UNCHANGED result
       ELSE /\ cpc' = "done"
            /\ result' = Returned("Ok", NoSettings)
            /\ UNCHANGED deadline
    /\ UNCHANGED <<client, call, xid, start, attempt, crx, sent, heard, calls>>

\* the for loop of send has run self.retries times: Err(Error::Timeout)
ClientExhausted ==
    /\ cpc = "loop"
    /\ attempt >= client.retries
    /\ Return("Timeout", NoSettings)
    /\ UNCHANGED crx

\* a transport error that is kept as the result while the loop goes on
ClientIoError_GoesOn ==
    /\ \/ cpc = "loop" /\ attempt < client.retries
       \/ cpc = "send"
       \/ cpc = "recv" /\ crx = None
    /\ result' = Returned("Io", NoSettings)
    /\ cpc' = "loop"
    /\ UNCHANGED <<client, call, xid, start, attempt, deadline, sent, heard,
                   calls, crx>>

\* connect_from, socket.send or receive_into reports a transport error
ClientIoError ==
    /\ \/ cpc = "loop" /\ attempt < client.retries
       \/ cpc = "send"
       \/ cpc = "recv" /\ crx = None
    /\ Return("Io", NoSettings)
    /\ UNCHANGED crx

\* a timer firing that surfaces Timeout at once instead of `break`
ClientTimerFires_Surfaces ==
    /\ cpc = "recv"
    /\ crx = None
    /\ now >= deadline
    /\ Return("Timeout", NoSettings)
    /\ UNCHANGED crx

\* the timer of select(receive_into, timer) completes first: `break`
ClientTimerFires ==
    /\ cpc = "recv"
    /\ crx = None
    /\ now >= deadline
    /\ cpc' = "loop"
    /\ UNCHANGED <<client, call, xid, start, attempt, deadline, crx, sent,
                   heard, calls, result>>

\* receive_into completes with the datagram f: select polls it before the
\* timer, so a datagram that is there is taken also when the timer is due
ClientReceive(f) ==
    /\ cpc = "recv"
    /\ crx = None
    /\ heard < MaxHeard
    /\ heard' = heard + 1
    /\ crx' = Some(f)
    /\ UNCHANGED <<client, cpc, call, xid, start, attempt, deadline, sent,
                   calls, result>>

\* send returned Ok(Some((mt, settings))) to discover or request
Accepted(mt, settings) ==
    IF call.op = "discover"
    THEN IF settings.server_ip = None
         THEN Return("Panic", NoSettings)
         ELSE /\ EnterSend([request(call.room, Unwrap(settings.server_ip),
                                    settings.ip)
                              EXCEPT !.api = "discover"])
              /\ UNCHANGED calls
    ELSE IF mt = "Ack" THEN Return("Ok", settings)
    ELSE Return("Nak", NoSettings)

\* the loop body of send leaving the window on a frame it passes over, so
\* that the for loop sends the next request
ClientHandleFrame_Breaks ==
    /\ cpc = "recv"
    /\ crx # None
    /\ crx' = None
    /\ LET dec == Decode(Unwrap(crx))
           pr == parse_reply(Unwrap(dec), client.mac, xid)
       IN  IF dec = None THEN Return("Format", NoSettings)
           ELSE IF pr # None /\ Unwrap(pr).mt \in call.expected
           THEN Accepted(Unwrap(pr).mt, Unwrap(pr).settings)
           ELSE /\ cpc' = "loop"
                /\ UNCHANGED <<client, call, xid, start, attempt, deadline,
                               sent, heard, calls, result>>

\* the loop body of send after receive_into: decode, parse_reply, the
\* expected message types; a frame passed over starts a new timer
ClientHandleFrame ==
    /\ cpc = "recv"
    /\ crx # None
    /\ crx' = None
    /\ LET dec == Decode(Unwrap(crx))
           pr == parse_reply(Unwrap(dec), client.mac, xid)
       IN  IF dec = None THEN Return("Format", NoSettings)
           ELSE IF pr # None /\ Unwrap(pr).mt \in call.expected
           THEN Accepted(Unwrap(pr).mt, Unwrap(pr).settings)
           ELSE /\ deadline' = now + client.timeout
                /\ UNCHANGED <<client, cpc, call, xid, start, attempt, sent,
                               heard, calls, result>>

\* time passes while the client task is suspended in connect_from, in
\* socket.send or in select, or while no operation runs
ClientTick ==
    /\ Tick
    /\ crx = None
    /\ cpc = "loop" => attempt < client.retries
    /\ UNCHANGED clientVars

\* ---------------------------------------------------------------- client inputs
\* the room of the buf handed to a client operation: none, enough for a
\* frame of one option, enough for every request frame
Rooms == {0, 1, 2}

LargestRoom == CHOOSE r \in Rooms : \A q \in Rooms : q <= r

ClientCalls ==
    {discover(b, None) : b \in Rooms}
    \cup {discover(b, Some(a)) : b \in Rooms, a \in PoolStarts}
    \cup {request(b, ip, a) : b \in Rooms, ip \in ServerIps, a \in PoolStarts}
    \cup {release(b, ip, a) : b \in Rooms, ip \in ServerIps, a \in PoolStarts}
    \cup {decline(b, ip, a) : b \in Rooms, ip \in ServerIps, a \in PoolStarts}

ReplyOptions(mt, sid) ==
    (IF mt = None THEN <<>> ELSE <<OptMessageType(Unwrap(mt))>>)
    \o (IF sid = None THEN <<>>
        ELSE <<OptServerIdentifier(Unwrap(sid)), OptIpAddressLeaseTime(1)>>)

\* datagrams that reach the client's socket
ClientInputs ==
    {Malformed}
    \cup {Encoded(Packet(TRUE, x, 0, 0, a, m, ReplyOptions(mt, sid))) :
            x \in Xids, a \in PoolStarts, m \in MACs,
            mt \in {None, Some("Offer"), Some("Ack"), Some("Nak")},
            sid \in {None} \cup {Some(ip) : ip \in ServerIps}}
    \cup {Encoded(Packet(FALSE, x, 0, 0, a, 1, ReplyOptions(Some("Offer"), None))) :
            x \in Xids, a \in PoolStarts}

\* ---------------------------------------------------------------- specifications
\* env: the datagrams other hosts have sent the server; released: the
\* address of the client's RELEASE when that was the last datagram handled;
\* after: the same when it was the one handled before the last; track:
\* whether `offered` remembers the Offer of the last reply; from: the
\* sender of the datagram the server received last
NoHist ==
    [env |-> 0, released |-> None, after |-> None, track |-> FALSE,
     from |-> "none"]

ServerReceives == \E d \in ServerInputs : ServerReceive(d)

ServerSends == \E sendOk \in BOOLEAN : ServerSent(sendOk)

ClientIdle ==
    /\ InitClient
    /\ client.retries = 0
    /\ client.timeout = 1

\* the server alone, with any datagrams reaching its socket
InitServerOnly ==
    /\ InitServer
    /\ ClientIdle
    /\ now = 0
    /\ c2s = <<>>
    /\ s2c = <<>>
    /\ hist = NoHist

NextServer ==
    \/ ServerReceives /\ UNCHANGED <<clientVars, netVars>>
    \/ ServerHandle /\ UNCHANGED <<clientVars, netVars>>
    \/ ServerSends /\ UNCHANGED <<clientVars, netVars>>
    \/ ServerRecvError /\ UNCHANGED <<clientVars, netVars>>
    \/ ServerLoop /\ UNCHANGED <<clientVars, netVars>>
    \/ ServerTick /\ UNCHANGED <<clientVars, netVars>>

SpecServer == InitServerOnly /\ [][NextServer]_vars

\* the server alone, remembering the Offer of its last reply
InitServerOffers ==
    /\ InitServer
    /\ ClientIdle
    /\ now = 0
    /\ c2s = <<>>
    /\ s2c = <<>>
    /\ hist = [NoHist EXCEPT !.track = TRUE]

SpecServerOffers == InitServerOffers /\ [][NextServer]_vars


ServerIdle ==
    /\ conf \in {c \in Configurations :
                   c.cap = 0 /\ c.range_end < c.range_start /\ c.room = 0}
    /\ leases = <<>>
    /\ run = "running"
    /\ rx = None
    /\ out = NoOut
    /\ offered = None

\* the client alone, with any datagrams reaching its socket
InitClientOnly ==
    /\ InitClient
    /\ ServerIdle
    /\ now = 0
    /\ c2s = <<>>
    /\ s2c = <<>>
    /\ hist = NoHist

ClientCalled == \E args \in ClientCalls : ClientCall(args)

ClientReceives == \E f \in ClientInputs : ClientReceive(f)

NextClient ==
    \/ ClientCalled /\ UNCHANGED <<serverVars, now, netVars>>
    \/ ClientAttempt /\ UNCHANGED <<serverVars, now, netVars>>
    \/ ClientSent /\ UNCHANGED <<serverVars, now, netVars>>
    \/ ClientExhausted /\ UNCHANGED <<serverVars, now, netVars>>
    \/ ClientIoError /\ UNCHANGED <<serverVars, now, netVars>>
    \/ ClientTimerFires /\ UNCHANGED <<serverVars, now, netVars>>
    \/ ClientReceives /\ UNCHANGED <<serverVars, now, netVars>>
    \/ ClientHandleFrame /\ UNCHANGED <<serverVars, now, netVars>>
    \/ ClientTick /\ UNCHANGED <<serverVars, netVars>>

\* how long an await of send may keep the task: connect_from, socket.send
\* and the select of receive_into and the timer return no earlier than
\* they are due, and as much later as the executor resumes the task
Delays == {32768, 65536}

\* time passes while send awaits connect_from, socket.send, or a frame or
\* the timer
ClientElapse ==
    /\ cpc \in {"loop", "send", "recv"}
    /\ cpc = "loop" => attempt < client.retries
    /\ crx = None
    /\ \E d \in Delays :
          /\ now + d <= MaxElapsed
          /\ now' = now + d
    /\ UNCHANGED clientVars

\* the client alone over long stretches of time
NextClientLong ==
    \/ ClientCalled /\ UNCHANGED <<serverVars, now, netVars>>
    \/ ClientAttempt /\ UNCHANGED <<serverVars, now, netVars>>
    \/ ClientSent /\ UNCHANGED <<serverVars, now, netVars>>
    \/ ClientExhausted /\ UNCHANGED <<serverVars, now, netVars>>
    \/ ClientIoError /\ UNCHANGED <<serverVars, now, netVars>>
    \/ ClientTimerFires /\ UNCHANGED <<serverVars, now, netVars>>
    \/ ClientReceives /\ UNCHANGED <<serverVars, now, netVars>>
    \/ ClientHandleFrame /\ UNCHANGED <<serverVars, now, netVars>>
    \/ ClientElapse /\ UNCHANGED <<serverVars, netVars>>

SpecClientLong == InitClientOnly /\ [][NextClientLong]_vars

SpecClient == InitClientOnly /\ [][NextClient]_vars

\* ---------------------------------------------------------------- end to end
\* The client and the server on one network that delivers every datagram in
\* order and reports no transport error; the buffers of both have room for
\* every frame.  Other hosts send the server datagrams of their own.  A
\* datagram on its way to the server is kept with its sender, to which the
\* server sends the reply.
InitE2E ==
    /\ InitServer
    /\ conf.cap >= 1
    /\ conf.range_start <= conf.range_end
    /\ conf.room > 0
    /\ InitClient
    /\ client.timeout = 1
    /\ now = 0
    /\ c2s = <<>>
    /\ s2c = <<>>
    /\ hist = NoHist

E2ECalls ==
    {discover(LargestRoom, None),
     release(LargestRoom, conf.ip, conf.range_start),
     request(LargestRoom, conf.ip, conf.range_start)}

\* a REQUEST that names the server, as RFC 2131 clients send it, and a
\* DISCOVER without a requested address
EnvInputs ==
    {Datagram(FALSE, Some("Request"), Some(conf.ip), Some(conf.range_start),
              0, m) : m \in MACs}
    \cup {Datagram(FALSE, Some("Discover"), None, None, 0, m) :
            m \in MACs \ {client.mac}}

E2EClientCall ==
    /\ \E args \in E2ECalls : ClientCall(args)
    /\ UNCHANGED <<serverVars, now, netVars>>

\* the frame handed to socket.send is on its way to the server
E2EClientAttempt ==
    /\ Len(c2s) < MaxQueue
    /\ ClientAttempt
    /\ c2s' = IF cpc' = "send"
              THEN Append(c2s, [d |-> Encoded(RequestFrame), from |-> "client"])
              ELSE c2s
    /\ UNCHANGED <<serverVars, now, s2c, hist>>

E2EClientSent ==
    /\ ClientSent
    /\ UNCHANGED <<serverVars, now, netVars>>

E2EClientReceive ==
    /\ s2c # <<>>
    /\ ClientReceive(Head(s2c))
    /\ s2c' = Tail(s2c)
    /\ UNCHANGED <<serverVars, now, c2s, hist>>

\* a reply that arrives while the client has no connected socket is lost
E2EReplyLost ==
    /\ s2c # <<>>
    /\ cpc \notin {"send", "recv"}
    /\ s2c' = Tail(s2c)
    /\ UNCHANGED <<serverVars, now, clientVars, c2s, hist>>

E2EEnvSend ==
    /\ Len(c2s) < MaxQueue
    /\ hist.env < MaxEnv
    /\ \E d \in EnvInputs : c2s' = Append(c2s, [d |-> d, from |-> "env"])
    /\ hist' = [hist EXCEPT !.env = hist.env + 1]
    /\ UNCHANGED <<serverVars, now, clientVars, s2c>>

\* receive_into returns the datagram and remote_addr, its sender
E2EServerReceive ==
    /\ c2s # <<>>
    /\ ServerReceive(Head(c2s).d)
    /\ c2s' = Tail(c2s)
    /\ hist' = [hist EXCEPT !.from = Head(c2s).from]
    /\ UNCHANGED <<clientVars, s2c>>

\* the RELEASE frame of the client's running release(server_ip, our_ip)
IsClientRelease ==
    /\ call.op = "release"
    /\ hist.from = "client"

E2EServerHandle ==
    /\ ServerHandle
    /\ hist' = [hist EXCEPT !.released =
                   IF IsClientRelease THEN call.our_ip ELSE None,
                             !.after = hist.released]
    /\ UNCHANGED <<clientVars, c2s, s2c>>

\* socket.send(local_addr, remote_addr, data) has sent the reply to the
\* sender of the request
E2EServerSent ==
    /\ ServerSent(TRUE)
    /\ s2c' = IF hist.from = "client"
              THEN Append(s2c, Encoded(Unwrap(out.reply)))
              ELSE s2c
    /\ UNCHANGED <<clientVars, c2s, hist>>

E2ETick ==
    /\ ClientTick
    /\ ServerAwaits
    /\ UNCHANGED <<serverVars, netVars>>

NextE2E ==
    \/ E2EClientCall
    \/ E2EClientAttempt
    \/ E2EClientSent
    \/ ClientExhausted /\ UNCHANGED <<serverVars, now, netVars>>
    \/ ClientTimerFires /\ UNCHANGED <<serverVars, now, netVars>>
    \/ E2EClientReceive
    \/ ClientHandleFrame /\ UNCHANGED <<serverVars, now, netVars>>
    \/ E2EReplyLost
    \/ E2EEnvSend
    \/ E2EServerReceive
    \/ E2EServerHandle
    \/ E2EServerSent
    \/ ServerLoop /\ UNCHANGED <<clientVars, netVars>>
    \/ E2ETick

SpecE2E == InitE2E /\ [][NextE2E]_vars

\* ---------------------------------------------------------------- claims
\* a handle() call that got a datagram has just returned
Handled == out.req # None

Request == Unwrap(out.req).pkt

ReplyType == IF out.reply = None THEN None
             ELSE FindMessageType(Unwrap(out.reply).options)

Pool == conf.range_start..conf.range_end

Keys(ls) == {ls[i].addr : i \in 1..Len(ls)}

Entries(ls) == {ls[i] : i \in 1..Len(ls)}

\* C1: single lease per MAC: for every MAC the lease table holds at most one
\* entry whose mac is that MAC, after any sequence of handled datagrams.
C1_SingleLeasePerMac ==
    \A i, j \in 1..Len(leases) : leases[i].mac = leases[j].mac => i = j

\* a MAC that held a lease on one address has been Ack'd another one, next
\* to another MAC's lease
C1_Witness ==
    /\ Handled
    /\ out.inserted = "ok"
    /\ current_lease(out.before, Request.chaddr) # None
    /\ current_lease(out.before, Request.chaddr) # current_lease(leases, Request.chaddr)
    /\ Len(out.before) = 2

\* C2: pool containment: every key of the lease table lies in
\* [range_start, range_end], whatever addresses clients send.
C2_PoolContainment == Keys(leases) \subseteq Pool

\* a REQUEST for an address outside the pool has been answered while the
\* table holds a lease
C2_Witness ==
    /\ Handled
    /\ Request.options # <<>>
    /\ FindMessageType(Request.options) = Some("Request")
    /\ FindServerIdentifier(Request.options) = Some(conf.ip)
    /\ \E a \in FindRequestedIpAddress(Request.options) : a \notin Pool
    /\ leases # <<>>

\* C3: available() never returns an address leased with an expiry that has
\* not passed: it returns a pool address absent from the table, or the
\* address of an expired entry, which it removes.
C3_AvailableReclaim ==
    out.avail.called =>
        \A a \in out.avail.addr :
            /\ a \in Pool
            /\ \A e \in Entries(out.before) : e.addr = a => out.at > e.expires
            /\ a \notin Keys(out.before) \/ a \notin Keys(leases)

\* available() has returned the address of an expired entry and removed it
C3_Witness ==
    /\ out.avail.called
    /\ \E a \in out.avail.addr : a \in Keys(out.before) /\ a \notin Keys(leases)

\* C4: a REQUEST answered with Nak leaves the lease table as it was before
\* the datagram was handled, also when the Nak comes from a failed insertion.
C4_NakLeavesTable ==
    ReplyType = Some("Nak") => leases = out.before

\* a Nak caused by LinearMap::insert failing on a full table
C4_Witness ==
    /\ ReplyType = Some("Nak")
    /\ out.inserted = "failed"
    /\ out.before # <<>>

\* C5: a datagram that fails decoding makes handle return Ok, send no reply
\* and leave the table unchanged, and run ends only on a transport error.
C5_ServerLeniency ==
    /\ Handled /\ ~Unwrap(out.req).ok =>
           out.res = "Ok" /\ ~out.sent /\ leases = out.before
    /\ run \in {"running", "Io"}

\* C10: a lease insertion during REQUEST handling fails only when the table
\* is full and holds no expired entry that could be evicted (no entry that
\* had expired when handle first read the clock).
C10_InsertFailsOnlyExhausted ==
    out.inserted = "failed" =>
        /\ Len(out.before) = conf.cap
        /\ \A e \in Entries(out.before) : ~(out.clock[1] > e.expires)

\* ---------------------------------------------------------------- client claims
ResultKind == IF result = None THEN "None" ELSE Unwrap(result).kind

\* the buffer of the running operation has room for its request frame
FrameFits == EncodeFits(RequestFrame, call.room)

\* C6 as stated: with no frame received and no transport error, discover
\* or request with retries = R sends exactly R request frames, all with the
\* xid chosen at the start, and then fails with Timeout; Timeout is never
\* returned before R frames were sent and a timer firing returns nothing by
\* itself.
C6_RetriesExhausted ==
    /\ call.expected # {} =>
          /\ \A k \in 1..Len(sent) : sent[k].xid = xid
          /\ Len(sent) <= client.retries
          /\ ResultKind = "Timeout" => Len(sent) = client.retries
          /\ cpc # "done" => result = None
    /\ call.expected # {} /\ heard = 0 /\ cpc = "done" /\ ResultKind # "Io" =>
          ResultKind = "Timeout" /\ Len(sent) = client.retries

\* C6 amended: with no frame received and no transport error, discover or
\* request with retries = R and a buffer that holds the request frame sends
\* exactly R request frames, all with the xid chosen at the start, and then
\* fails with Timeout; with R >= 1 and a buffer too small for the frame it
\* sends no frame and fails with the format error of the encoder.  Timeout
\* is never returned before R frames were sent and a timer firing returns
\* nothing by itself.
C6_RetriesExhaustedWithRoom ==
    /\ call.expected # {} =>
          /\ \A k \in 1..Len(sent) : sent[k].xid = xid
          /\ Len(sent) <= client.retries
          /\ ResultKind = "Timeout" => Len(sent) = client.retries
          /\ cpc # "done" => result = None
    /\ call.expected # {} /\ heard = 0 /\ cpc = "done" /\ ResultKind # "Io" =>
          IF FrameFits \/ client.retries = 0
          THEN ResultKind = "Timeout" /\ Len(sent) = client.retries
          ELSE ResultKind = "Format" /\ sent = <<>>

\* an operation with the largest retries has timed out without any frame
C6_Witness ==
    /\ call.expected # {}
    /\ cpc = "done"
    /\ heard = 0
    /\ ResultKind = "Timeout"
    /\ client.retries = MaxRetries
    /\ Len(sent) = MaxRetries

\* the frame in crx is one the running send accepts
Matches(f) ==
    /\ f.ok
    /\ f.pkt.reply
    /\ f.pkt.xid = xid
    /\ f.pkt.chaddr = client.mac
    /\ \E o \in 1..Len(f.pkt.options) :
          /\ f.pkt.options[o].code = "MessageType"
          /\ \A n \in 1..(o - 1) : f.pkt.options[n].code # "MessageType"
          /\ f.pkt.options[o].mt \in call.expected

\* C7: a well-formed frame that does not match causes no new request frame
\* and counts no attempt, and the first frame of the window that matches
\* (mac, xid) with an expected message type is the one send returns.
C7_ForeignFramesTolerated ==
    [][cpc = "recv" /\ crx # None /\ crx' = None =>
        LET f == Unwrap(crx)
        IN  /\ f.ok /\ ~Matches(f) =>
                  /\ sent' = sent
                  /\ attempt' = attempt
                  /\ cpc' = "recv"
                  /\ result' = result
            /\ Matches(f) =>
                  /\ cpc' # "recv"
                  /\ call.op = "request" =>
                        /\ cpc' = "done"
                        /\ ResultKind' \in {"Ok", "Nak"}
                        /\ ResultKind' = "Ok" =>
                              Unwrap(result').settings.ip = f.pkt.yiaddr
                  /\ call.op = "discover" /\ cpc' # "done" =>
                        /\ call'.op = "request"
                        /\ call'.our_ip = Some(f.pkt.yiaddr)
                        /\ sent' = <<>>
    ]_vars

\* a request passed over one frame and returned the next one of the same
\* window, having sent a single REQUEST
C7_Witness ==
    /\ call.api = "request"
    /\ cpc = "done"
    /\ heard = 2
    /\ Len(sent) = 1
    /\ ResultKind \in {"Ok", "Nak"}

\* ---------------------------------------------------------------- end-to-end claims
\* the datagram just handled is a frame of the client's running send
FromClient ==
    /\ Handled
    /\ hist.from = "client"
    /\ \E k \in 1..Len(sent) : out.req = Some(Encoded(sent[k]))

ReplyAddr == IF out.reply = None THEN 0 ELSE Unwrap(out.reply).yiaddr

\* C8: once the server has handled the RELEASE frame of the client's
\* release(server_ip, A), the lease table holds no entry of the client, and a
\* DISCOVER without requested address that another MAC sends next is offered
\* A, the lowest pool address.
C8_ReleaseClearsLease ==
    /\ FromClient /\ call.op = "release" =>
          current_lease(leases, client.mac) = None
    /\ /\ Handled
       /\ hist.after = Some(conf.range_start)
       /\ FindMessageType(Request.options) = Some("Discover")
       /\ FindRequestedIpAddress(Request.options) = None
       /\ Request.chaddr # client.mac
       => ReplyType = Some("Offer") /\ ReplyAddr = conf.range_start

\* C9: the server answers the REQUEST that the client's discover(None)
\* chains after the Offer with an Ack for range_start and the table becomes
\* {range_start -> (client MAC, time of Ack + lease_duration)}; the client
\* returns Settings with that ip, the server's ip and the lease seconds.
C9_HappyPath ==
    /\ /\ FromClient
       /\ call.api = "discover"
       /\ call.op = "request"
       /\ hist.env = 0
       => /\ ReplyType = Some("Ack")
          /\ ReplyAddr = conf.range_start
          /\ leases = <<[addr |-> conf.range_start, mac |-> client.mac,
                         expires |-> out.at + conf.lease_duration]>>
    /\ call.api = "discover" /\ ResultKind = "Ok" /\ hist.env = 0 =>
          Unwrap(result).settings =
              [ip |-> conf.range_start, server_ip |-> Some(conf.ip),
               lease |-> Some(conf.lease_duration)]

\* ---------------------------------------------------------------- server claims, continued
\* the decoded request of the datagram just handled is one the filter of
\* Server::handle passes over
Filtered ==
    \/ Request.reply
    \/ FindMessageType(Request.options) = None
    \/ \E ip \in FindServerIdentifier(Request.options) : ip # conf.ip
    \/ /\ FindServerIdentifier(Request.options) = None
       /\ FindMessageType(Request.options) # Some("Discover")

\* the accepted request just handled has this message type
AcceptedIs(mt) ==
    /\ Handled
    /\ Unwrap(out.req).ok
    /\ ~Filtered
    /\ FindMessageType(Request.options) = Some(mt)

\* C11: a well-formed datagram that is a reply, has no MessageType, names
\* another server, or has no ServerIdentifier and is not a Discover gets no
\* reply, leaves the lease table unchanged and makes handle return Ok; every
\* other well-formed request reaches its arm: a Request is answered with Ack
\* or Nak, a Decline or Release leaves its MAC without lease, a Discover is
\* answered unless no address was found.
C11_ServerIdentifierFilter ==
    Handled /\ Unwrap(out.req).ok =>
        /\ Filtered =>
              out.reply = None /\ leases = out.before /\ out.res = "Ok"
        /\ AcceptedIs("Request") => ReplyType \in {Some("Ack"), Some("Nak")}
        /\ AcceptedIs("Decline") \/ AcceptedIs("Release") =>
              current_lease(leases, Request.chaddr) = None
        /\ AcceptedIs("Discover") /\ out.reply = None =>
              out.avail.called /\ out.avail.addr = None

\* a RELEASE naming another server was dropped although its MAC holds a lease
C11_Witness ==
    /\ Handled
    /\ Unwrap(out.req).ok
    /\ FindMessageType(Request.options) = Some("Release")
    /\ \E ip \in FindServerIdentifier(Request.options) : ip # conf.ip
    /\ current_lease(out.before, Request.chaddr) # None
    /\ leases = out.before

\* is_available as the design states it, on the table before the datagram
\* and at the time is_available reads
DesignAvailable(mac, ip) ==
    /\ ip \in Pool
    /\ \A e \in Entries(out.before) :
          e.addr = ip => e.mac = mac \/ out.clock[1] > e.expires

\* the addresses the table before the datagram binds to this MAC
LeasesOf(mac) == {e.addr : e \in {x \in Entries(out.before) : x.mac = mac}}

FreeBefore == Pool \ Keys(out.before)

\* the entries of the table before the datagram that have expired when
\* handle has run
ExpiredBefore == {i \in 1..Len(out.before) : out.at > out.before[i].expires}

\* the entries of the table before the datagram that have expired at the
\* time the scan of available() reads for them
ScanExpired ==
    {i \in 1..Len(out.before) : out.clock[1 + i] > out.before[i].expires}

Offers(addrs) == ReplyType = Some("Offer") /\ ReplyAddr \in addrs

\* the address the first-match chain yields for the DISCOVER just handled,
\* on the table before it and at the times the handler reads: the
\* RequestedIpAddress R when is_available(M, R), otherwise the address of
\* M's lease, otherwise the lowest pool address absent from the table,
\* otherwise the address of the first expired entry
ChainYields ==
    LET M == Request.chaddr
        R == {r \in FindRequestedIpAddress(Request.options) :
                DesignAvailable(M, r)}
    IN  IF R # {} THEN R
        ELSE IF LeasesOf(M) # {} THEN LeasesOf(M)
        ELSE IF FreeBefore # {}
        THEN {a \in FreeBefore : \A b \in FreeBefore : a <= b}
        ELSE {out.before[i].addr :
                i \in {j \in ScanExpired : \A k \in ScanExpired : j <= k}}

\* handle has returned from the datagram it got
HandleReturned == Handled /\ out.res # "Sending"

\* C12 as stated: for an accepted DISCOVER the address offered is the one
\* the first-match chain yields, an Offer is sent exactly when the chain
\* yields an address, and no reply is sent when it yields none.
C12_DiscoverChain ==
    AcceptedIs("Discover") =>
        /\ IF ChainYields # {} THEN Offers(ChainYields) ELSE out.reply = None
        /\ HandleReturned => (out.sent <=> ChainYields # {})

\* C12 amended: for an accepted DISCOVER the Offer built names the address
\* the first-match chain yields and no reply is built when it yields none;
\* the Offer is sent exactly when the chain yields an address, buf has room
\* for the reply and the transport sends it, and handle then returns Ok;
\* when the chain yields an address and buf has no room for the reply,
\* handle returns the format error of the encoder and nothing is sent;
\* when the transport fails, handle returns the I/O error.
C12_DiscoverChainWhenSent ==
    AcceptedIs("Discover") =>
        /\ IF ChainYields # {} THEN Offers(ChainYields) ELSE out.reply = None
        /\ HandleReturned =>
              /\ out.sent <=> ChainYields # {} /\ out.res = "Ok"
              /\ ChainYields = {} => out.res = "Ok"
              /\ ChainYields # {} /\ conf.room < Len(Unwrap(out.reply).options)
                    => out.res = "Format"
              /\ ChainYields # {} /\ conf.room >= Len(Unwrap(out.reply).options)
                    => out.res \in {"Ok", "Io"}

\* a DISCOVER asking for an address another MAC holds unexpired was offered
\* the address of its own lease, and the Offer was sent
C12_Witness ==
    /\ AcceptedIs("Discover")
    /\ \E r \in FindRequestedIpAddress(Request.options) :
          /\ r \in Pool
          /\ ~DesignAvailable(Request.chaddr, r)
    /\ Offers(LeasesOf(Request.chaddr))
    /\ out.sent

\* C16: handling a DISCOVER creates, rebinds and re-dates no lease: every
\* entry of the table afterwards was there before, and the table changes
\* only by available() removing one expired entry.
C16_DiscoverRecordsNoLease ==
    AcceptedIs("Discover") =>
        /\ Entries(leases) \subseteq Entries(out.before)
        /\ Entries(leases) # Entries(out.before) =>
              /\ out.avail.called
              /\ \E e \in Entries(out.before) :
                    /\ out.at > e.expires
                    /\ Entries(leases) = Entries(out.before) \ {e}
        /\ Entries(leases) = Entries(out.before) =>
              Len(leases) = Len(out.before)

\* an Offer made of the address of an expired entry of another MAC, which
\* the sweep removed
C16_Witness ==
    /\ AcceptedIs("Discover")
    /\ ReplyType = Some("Offer")
    /\ out.avail.swept
    /\ Len(leases) = Len(out.before) - 1
    /\ \E e \in Entries(out.before) :
          e.addr = ReplyAddr /\ e.mac # Request.chaddr

\* C18: a lease of address A to MAC M that is unexpired while the datagram
\* is handled (up to the last time handle reads the clock) survives,
\* unchanged, every datagram whose chaddr is another MAC, and A is neither
\* offered nor acknowledged to that other MAC.
C18_LeaseStability ==
    Handled /\ Unwrap(out.req).ok =>
        \A e \in Entries(out.before) :
            e.mac # Request.chaddr /\ ~(out.at > e.expires) =>
                /\ e \in Entries(leases)
                /\ ~Offers({e.addr})
                /\ ~(ReplyType = Some("Ack") /\ ReplyAddr = e.addr)

\* a REQUEST for an address another MAC holds unexpired was refused while
\* the requester kept a lease of its own
C18_Witness ==
    /\ AcceptedIs("Request")
    /\ ReplyType = Some("Nak")
    /\ \E e \in Entries(out.before) :
          /\ e.mac # Request.chaddr
          /\ ~(out.at > e.expires)
          /\ FindRequestedIpAddress(Request.options) = Some(e.addr)
    /\ LeasesOf(Request.chaddr) # {}

\* the address a REQUEST asks for: its RequestedIpAddress, else its ciaddr
RequestAddr ==
    IF FindRequestedIpAddress(Request.options) # None
    THEN Unwrap(FindRequestedIpAddress(Request.options))
    ELSE Request.ciaddr

\* the datagram just handled is an accepted REQUEST of the MAC, and for the
\* address, of the Offer that was the server's reply to the datagram before
RequestAfterOffer ==
    /\ AcceptedIs("Request")
    /\ conf.cap >= 1
    /\ out.prev = Some([mac |-> Request.chaddr, addr |-> RequestAddr])

BoundTo(addr, mac) ==
    \E e \in Entries(leases) : e.addr = addr /\ e.mac = mac

\* the table before the REQUEST holds N entries, none for the address and
\* none of the MAC
NoRoom ==
    /\ Len(out.before) >= conf.cap
    /\ RequestAddr \notin Keys(out.before)
    /\ LeasesOf(Request.chaddr) = {}

\* C19 as stated: M's REQUEST for A handled right after the Offer of A to
\* M is answered with Ack and binds A to M, for every capacity N >= 1 and
\* every pool size.
C19_OfferHonoured ==
    RequestAfterOffer =>
        ReplyType = Some("Ack") /\ BoundTo(RequestAddr, Request.chaddr)

\* C19 amended: M's REQUEST for A handled right after the Offer of A to M is
\* answered with Ack and binds A to M whenever the table has room for the
\* entry (A is a key, or M holds a lease, or fewer than N entries are
\* stored); when the table holds N unexpired entries, none for A and none
\* of M, the reply is Nak and the table is unchanged.
C19_OfferHonouredWithRoom ==
    RequestAfterOffer =>
        /\ ~NoRoom =>
              /\ ReplyType = Some("Ack")
              /\ ReplyAddr = RequestAddr
              /\ BoundTo(RequestAddr, Request.chaddr)
        /\ NoRoom /\ ExpiredBefore = {} =>
              ReplyType = Some("Nak") /\ leases = out.before

\* an offered address was acknowledged to its MAC in a table that was full:
\* the address was the key of an expired entry of another MAC
C19_Witness ==
    /\ RequestAfterOffer
    /\ ReplyType = Some("Ack")
    /\ Len(out.before) >= conf.cap
    /\ LeasesOf(Request.chaddr) = {}
    /\ BoundTo(RequestAddr, Request.chaddr)

\* ---------------------------------------------------------------- client claims, continued
\* C14: a transport error of connect_from, send or receive_into ends the
\* operation with Io at once: the step that reports it returns, and no
\* request frame is sent and no attempt is started afterwards, whatever
\* number of retries remains.
C14_IoAbortsAtOnce ==
    [][/\ ResultKind' = "Io" /\ ResultKind # "Io" =>
              cpc' = "done" /\ sent' = sent /\ attempt' = attempt
       /\ ResultKind = "Io" /\ calls' = calls =>
              /\ cpc' = "done"
              /\ sent' = sent
              /\ attempt' = attempt
              /\ result' = result
    ]_vars

\* a discover or request has returned Io after its first frame, with
\* retries left
C14_Witness ==
    /\ ResultKind = "Io"
    /\ cpc = "done"
    /\ call.expected # {}
    /\ Len(sent) = 1
    /\ attempt < client.retries

\* the running or finished operation is release or decline
NoReplyAwaited == call.op \in {"release", "decline"}

\* C15 as stated: release and decline send exactly one frame and return
\* success without awaiting a reply, for every value of retries, when the
\* transport reports no error.
C15_OneFrameAlways ==
    /\ NoReplyAwaited => cpc # "recv" /\ heard = 0
    /\ NoReplyAwaited /\ cpc = "done" /\ ResultKind # "Io" =>
          ResultKind = "Ok" /\ Len(sent) = 1

\* C15 amended: with retries >= 1 and a buffer that holds the frame release
\* and decline send exactly one frame and return success without awaiting a
\* reply when the transport reports no error; with retries = 0 they send no
\* frame and return Timeout; with retries >= 1 and a buffer too small for
\* the frame they send no frame and return the format error of the encoder.
C15_OneFrameWhenRetries ==
    /\ NoReplyAwaited => cpc # "recv" /\ heard = 0
    /\ NoReplyAwaited /\ cpc = "done" /\ ResultKind # "Io" =>
          IF client.retries = 0
          THEN ResultKind = "Timeout" /\ sent = <<>>
          ELSE IF FrameFits
          THEN ResultKind = "Ok" /\ Len(sent) = 1
          ELSE ResultKind = "Format" /\ sent = <<>>

\* a release of a client with the largest retries has returned Ok after one
\* RELEASE frame
C15_Witness ==
    /\ call.op = "release"
    /\ cpc = "done"
    /\ client.retries = MaxRetries
    /\ ResultKind = "Ok"
    /\ Len(sent) = 1
    /\ FindMessageType(sent[1].options) = Some("Release")

\* C17: the receive window of an attempt ends `timeout` after the
\* attempt's request frame was sent: the time at which its timer is due
\* stays the same however many frames that do not match are received in
\* the window.
C17_WindowBounded ==
    [][cpc = "recv" /\ cpc' = "recv" => deadline' = deadline]_vars

\* C20: send never hands discover an accepted OFFER whose Settings lack
\* server_ip, so discover never panics on `settings.server_ip.unwrap()`
\* and goes on to the chained REQUEST.
C20_OfferNamesServer == ResultKind # "Panic"

\* C13: the secs of every request frame is the whole seconds elapsed since
\* the start of the operation, saturating at 65535 and never wrapping, so
\* the secs of the frames of one operation never decrease.
C13_SecsSaturates ==
    [][sent' # sent /\ sent' # <<>> =>
          LET f == sent'[Len(sent')]
              elapsed == now - start
          IN  /\ f.secs = IF elapsed >= 65536 THEN 65535 ELSE elapsed
              /\ \A k \in 1..Len(sent) : sent[k].secs <= f.secs
    ]_vars

====
